---- MODULE Spec2Model ----
(***************************************************************************)
(* vision_connect backend: the device provisioning endpoints of            *)
(* backend/app/camera_routes.py over the shared device collection of       *)
(* backend/app/db.py, and the signaling endpoint of backend/app/main.py    *)
(* over the connection maps of backend/app/signaling.py.                   *)
(*                                                                         *)
(* Every HTTP call is a coroutine; it runs atomically between two awaits   *)
(* and every await on the store is one atomic store operation.  A call is  *)
(* therefore a short sequence of steps, and the steps of different calls   *)
(* interleave freely.                                                      *)
(***************************************************************************)
EXTENDS Integers, Sequences, FiniteSets, Bags, TLC

\* ---------------------------------------------------------------- bounds
MaxCalls == 2      \* activate calls suspended at their second await at once
MaxRecords == 1    \* onboardings started over the life of the system
MaxOnboard == 3    \* the same, where only onboarding and deletion run
MaxConns == 3      \* WebSocket connections opened over the life of the system
MaxPair == 2       \* onboardings started where only onboarding and activation run
MaxChannels == 2   \* WebSocket objects handed to the functions of signaling.py
MaxSending == 1    \* forwards suspended in ws.send_text at once

\* ---------------------------------------------------------------- values
NULL == "None"                       \* Python's None
OVERSIZE == "<longer than a QR code holds>"
Owners == {"u1"}                     \* users who onboard cameras
Users == Owners \cup {"u2"}          \* user_id claims of valid JWTs
Uids == {"cam1", "cam2"}             \* hardware UIDs a camera may present
Ips == {"10.0.0.7"}                  \* DeviceActivation.local_ip
Passwords == {"pw", OVERSIZE}        \* DeviceOnboardRequest.wifi_password
\* what datetime.utcnow().isoformat() returns: at an onboarding, at an activation
OnboardTimes == {"2025-01-01T00:00:00.000000"}
Times == {"2025-01-01T00:00:01.000000", "2025-01-01T00:00:02.000000"}
WIFI_SSID == "home"
CAMERA_MODEL == "GENERIC_ONVIF"
DEVICE_NAME == "My Camera"
SERVER_URL == "http://localhost:8000"
BAD_ID == "not-an-object-id"
UNBOUND == "<unbound local>"         \* a local name no assignment has reached
Conns == 1..MaxConns                 \* the WebSocket objects, one per connection
Channels == 1..MaxChannels           \* the WebSocket objects signaling.py is handed
DeviceKeys == {"cam1"}               \* uid arguments of signaling.py
UserKeys == {"u1"}                   \* user_id arguments of signaling.py

VARIABLES
    devices_collection,  \* db.devices_collection: _id -> document
    oid_counter,         \* ObjectIds handed out by insert_one so far
    uuid_counter,        \* uuid.uuid4() values handed out so far
    call,                \* the activate calls suspended between find_one and
                         \* update_one, each with its arguments and locals (a bag)
    last,                \* the response the step just taken sent, if it sent one
    issued,              \* history: the tokens successful initiates returned, in order
    act_issued,          \* history: tokens some activate call arrived with
    act_ok,              \* history: tokens some activate call returned success for
    seen_active,         \* history: tokens some check_status returned active for
    devices,             \* signaling.devices: camera uid -> websocket
    users,               \* signaling.users: user_id -> websocket
    ws,                  \* ws[conn]: the connection's state and the locals of
                         \* its websocket_endpoint coroutine
    peer,                \* peer[ch]: whether the client end of the channel reads
    sending,             \* the forwards suspended in await ws.send_text (a bag)
    sig,                 \* the call of signaling.py the step just taken made
    dropped,             \* history: the keys a forward found no channel for
    qr                   \* the QR payload a caller of qr_utils.py works on

prov_vars == <<devices_collection, oid_counter, uuid_counter, call, last,
               issued, act_issued, act_ok, seen_active, qr>>

ws_vars == <<devices, users, ws>>

sig_vars == <<peer, sending, sig, dropped>>

vars == <<prov_vars, ws_vars, sig_vars>>

hist == <<issued, act_issued, act_ok, seen_active>>

\* ---------------------------------------------------------------- helpers
Range(s) == {s[i] : i \in DOMAIN s}

\* a response: the operation and the token it was called with, the status
\* code and the body; after_ok: an activate of the token had returned success
\* before the call arrived
NoResponse == [op |-> "none", token |-> NULL, code |-> 0, status |-> NULL,
               activated |-> FALSE, after_ok |-> FALSE]

\* str(uuid.uuid4()): a value no earlier call returned (the 2^-122 chance of
\* drawing the same UUID twice is not modelled)
Token(n) == "tok-" \o ToString(n)
uuid4 == Token(uuid_counter + 1)

\* the _id insert_one gives the n-th inserted document, as str(ObjectId)
ObjectId(n) == "oid-" \o ToString(n)

\* raise HTTPException(status_code, ...)
HTTPException(status_code) ==
    [code |-> status_code, status |-> NULL, activated |-> FALSE]

\* the response r of operation op called with device_token
Respond(op, device_token, after_ok, r) ==
    [op |-> op, token |-> device_token, code |-> r.code, status |-> r.status,
     activated |-> r.activated, after_ok |-> after_ok]

\* ------------------------------------------------------- qr_utils.py
\* a compact form that keeps every field, under the aliases u, m and i
generate_qr_data_all_aliases(wifi_ssid, wifi_password, server_url, device_token, user_id, camera_model, compact) ==
    IF compact
    THEN [s |-> wifi_ssid, p |-> wifi_password, t |-> device_token,
          u |-> server_url, m |-> camera_model, i |-> user_id, v |-> 1]
    ELSE [wifi_ssid |-> wifi_ssid, wifi_password |-> wifi_password,
          server_url |-> server_url, device_token |-> device_token,
          user_id |-> user_id, camera_model |-> camera_model,
          version |-> "1.0"]

\* generate_qr_data: the dictionary the QR code carries
generate_qr_data(wifi_ssid, wifi_password, server_url, device_token, user_id, camera_model, compact) ==
    IF compact
    THEN [s |-> wifi_ssid, p |-> wifi_password, t |-> device_token, v |-> 1]
    ELSE [wifi_ssid |-> wifi_ssid, wifi_password |-> wifi_password,
          server_url |-> server_url, device_token |-> device_token,
          user_id |-> user_id, camera_model |-> camera_model,
          version |-> "1.0"]

\* create_qr_code_image: qr.make(fit=True) raises (DataOverflowError) when
\* the JSON text does not fit the largest QR version; otherwise the call
\* returns a PNG data URL.  The version number is short.
create_qr_code_image_raises(data) ==
    \E k \in DOMAIN data \ {"v"} : data[k] = OVERSIZE

\* dict.get(key)
get(d, key) == IF key \in DOMAIN d THEN d[key] ELSE NULL

\* a decoder that takes every payload for a compact one
decode_qr_data_compact_only(qr_data) ==
    [wifi_ssid |-> get(qr_data, "s"), wifi_password |-> get(qr_data, "p"),
     device_token |-> get(qr_data, "t"), server_url |-> get(qr_data, "u"),
     camera_model |-> get(qr_data, "m"), user_id |-> get(qr_data, "i"),
     version |-> IF "v" \in DOMAIN qr_data THEN qr_data["v"] ELSE 1]

\* decode_qr_data: a payload with the key "s" is compact and is spelled out,
\* any other payload is returned as it is
decode_qr_data(qr_data) ==
    IF "s" \in DOMAIN qr_data
    THEN [wifi_ssid |-> get(qr_data, "s"), wifi_password |-> get(qr_data, "p"),
          device_token |-> get(qr_data, "t"), server_url |-> get(qr_data, "u"),
          camera_model |-> get(qr_data, "m"), user_id |-> get(qr_data, "i"),
          version |-> IF "v" \in DOMAIN qr_data THEN qr_data["v"] ELSE 1]
    ELSE qr_data

\* the onboarding field values the codec is applied to
QrFields ==
    [wifi_ssid : {WIFI_SSID, "s"}, wifi_password : Passwords,
     server_url : {SERVER_URL}, device_token : {Token(1), Token(2)},
     user_id : Users, camera_model : {CAMERA_MODEL, "CP_PLUS_WIFI_V2"}]

NoQr == [stage |-> "none", compact |-> FALSE, fields |-> <<>>,
         qr_data |-> <<>>, decoded |-> <<>>]

\* qr_data = generate_qr_data(**fields, compact=compact)
qr_generate(fields, compact) ==
    /\ qr' = [stage |-> "encoded", compact |-> compact, fields |-> fields,
              qr_data |-> generate_qr_data(fields.wifi_ssid, fields.wifi_password,
                              fields.server_url, fields.device_token,
                              fields.user_id, fields.camera_model, compact),
              decoded |-> <<>>]
    /\ UNCHANGED <<devices_collection, oid_counter, uuid_counter, call, last, hist>>
    /\ UNCHANGED <<ws_vars, sig_vars>>

\* dictionaries a camera scanned that generate_qr_data did not build: compact
\* ones with aliases missing, and one without the key "s"
ScannedPayloads ==
    {[s |-> WIFI_SSID], [s |-> WIFI_SSID, t |-> Token(1)],
     [p |-> "pw", t |-> Token(1)]}

\* a scanned dictionary is handed to the decoder
qr_scan(qr_data) ==
    /\ qr' = [stage |-> "encoded", compact |-> "s" \in DOMAIN qr_data,
              fields |-> <<>>, qr_data |-> qr_data, decoded |-> <<>>]
    /\ UNCHANGED <<devices_collection, oid_counter, uuid_counter, call, last, hist>>
    /\ UNCHANGED <<ws_vars, sig_vars>>

\* decode_qr_data(qr_data)
qr_decode ==
    /\ qr.stage = "encoded"
    /\ qr' = [qr EXCEPT !.stage = "decoded", !.decoded = decode_qr_data(qr.qr_data)]
    /\ UNCHANGED <<devices_collection, oid_counter, uuid_counter, call, last, hist>>
    /\ UNCHANGED <<ws_vars, sig_vars>>

\* ------------------------------------------------------- camera_routes.py
\* get_current_user: the JWT payload, or 401 for a missing or invalid header
get_current_user(authorization) ==
    IF authorization = NULL THEN HTTPException(401) ELSE [user_id |-> authorization]

\* device_doc with the token taken from the request instead of uuid4
device_doc_named_token(user_id, device_token, utcnow) ==
    [device_name |-> DEVICE_NAME,
     camera_model |-> CAMERA_MODEL,
     owner_id |-> user_id,
     wifi_ssid |-> WIFI_SSID,
     device_token |-> DEVICE_NAME,
     status |-> "pending",
     device_uid |-> NULL,
     local_ip |-> NULL,
     created_at |-> utcnow,
     activated_at |-> NULL]

\* device_doc of initiate_device_onboarding
device_doc(user_id, device_token, utcnow) ==
    [device_name |-> DEVICE_NAME,
     camera_model |-> CAMERA_MODEL,
     owner_id |-> user_id,
     wifi_ssid |-> WIFI_SSID,
     device_token |-> device_token,
     status |-> "pending",
     device_uid |-> NULL,
     local_ip |-> NULL,
     created_at |-> utcnow,
     activated_at |-> NULL]

\* a "$set" without the device_uid
activate_set_without_uid(doc, device_uid, local_ip, utcnow) ==
    [doc EXCEPT !.status = "active",
                !.local_ip = local_ip,
                !.activated_at = utcnow]

\* a "$set" that also replaces the device_token by the hardware UID
activate_set_retokening(doc, device_uid, local_ip, utcnow) ==
    [doc EXCEPT !.device_uid = device_uid,
                !.device_token = device_uid,
                !.status = "active",
                !.local_ip = local_ip,
                !.activated_at = utcnow]

\* a "$set" that treats the activation of an activated device as a new pairing
activate_set_repairing(doc, device_uid, local_ip, utcnow) ==
    [doc EXCEPT !.device_uid = device_uid,
                !.status = IF doc.status = "pending" THEN "active" ELSE "pending",
                !.local_ip = local_ip,
                !.activated_at = utcnow]

\* the "$set" document of activate_device applied to a stored document
activate_set(doc, device_uid, local_ip, utcnow) ==
    [doc EXCEPT !.device_uid = device_uid,
                !.status = "active",
                !.local_ip = local_ip,
                !.activated_at = utcnow]

\* activate_device's filter without the status
activate_filter_by_token(doc, device_token) ==
    doc.device_token = device_token

\* the filter of activate_device's find_one
activate_filter(doc, device_token) ==
    doc.device_token = device_token /\ doc.status = "pending"

\* check_device_status's filter with the status of activate_device's
check_status_filter_pending(doc, device_token) ==
    doc.device_token = device_token /\ doc.status = "pending"

\* the filter of check_device_status's find_one
check_status_filter(doc, device_token) ==
    doc.device_token = device_token

\* check_device_status's response with the comparison inverted
check_status_response_inverted(doc) ==
    [code |-> 200, status |-> doc.status, activated |-> (doc.status # "active")]

\* the response body of check_device_status
check_status_response(doc) ==
    [code |-> 200, status |-> doc.status, activated |-> (doc.status = "active")]

\* POST /api/camera/onboard without a valid JWT: get_current_user raises 401
initiate_unauthorized ==
    /\ last' = Respond("initiate", NULL, FALSE, get_current_user(NULL))
    /\ UNCHANGED <<devices_collection, oid_counter, uuid_counter, call, hist>>
    /\ UNCHANGED <<ws_vars, sig_vars, qr>>

\* POST /api/camera/onboard: the token is drawn,
\* await db.devices_collection.insert_one(device_doc) stores the document,
\* then generate_qr_data, create_qr_code_image (which may raise: the handler
\* catches nothing, the framework answers 500) and the response;
\* utcnow is what datetime.utcnow().isoformat() returns
initiate_device_onboarding(user_id, wifi_password, utcnow) ==
    LET device_token == uuid4
        id == ObjectId(oid_counter + 1)
        qr_data == generate_qr_data(WIFI_SSID, wifi_password, SERVER_URL,
                                    device_token, user_id, CAMERA_MODEL, TRUE)
    IN /\ devices_collection' =
              [x \in DOMAIN devices_collection \cup {id} |->
                  IF x = id THEN device_doc(user_id, device_token, utcnow)
                  ELSE devices_collection[x]]
       /\ uuid_counter' = uuid_counter + 1
       /\ oid_counter' = oid_counter + 1
       /\ IF create_qr_code_image_raises(qr_data)
          THEN /\ last' = Respond("initiate", device_token, FALSE,
                                  HTTPException(500))
               /\ UNCHANGED issued
          ELSE /\ last' = Respond("initiate", device_token, FALSE,
                                  [code |-> 200, status |-> "pending",
                                   activated |-> FALSE])
               /\ issued' = Append(issued, device_token)
       /\ UNCHANGED <<call, act_issued, act_ok, seen_active>>
       /\ UNCHANGED <<ws_vars, sig_vars, qr>>

\* the tokens a caller can present: the ones drawn so far and one that never
\* was (tok-0)
KnownTokens == {Token(n) : n \in 0..uuid_counter}

\* the device ids a caller can present: the ones inserted so far and a string
\* that is no ObjectId
KnownIds == {ObjectId(n) : n \in 1..oid_counter} \cup {BAD_ID}

\* POST /api/camera/activate:
\* device = await find_one({"device_token": ..., "status": "pending"}),
\* 404 when there is none; otherwise the call goes on to update_one
activate_device(device_token, device_uid, local_ip) ==
    /\ LET found == {id \in DOMAIN devices_collection :
                          activate_filter(devices_collection[id], device_token)} IN
       IF found = {}
       THEN /\ last' = Respond("activate", device_token, device_token \in act_ok,
                               HTTPException(404))
            /\ UNCHANGED call
       ELSE /\ BagCardinality(call) < MaxCalls
            /\ \E id \in found :
                  call' = call (+) SetToBag({
                      [token |-> device_token, uid |-> device_uid,
                       ip |-> local_ip, device |-> id,
                       after_ok |-> (device_token \in act_ok)]})
            /\ last' = NoResponse
    /\ act_issued' = act_issued \cup {device_token}
    /\ UNCHANGED <<devices_collection, oid_counter, uuid_counter,
                   issued, act_ok, seen_active>>
    /\ UNCHANGED <<ws_vars, sig_vars, qr>>

\* the rest of a suspended activate_device call r:
\* update_result = await update_one({"_id": device["_id"]}, {"$set": ...});
\* modified_count is 1 when a document matched and the $set changed it;
\* 500 when it is 0; utcnow is what datetime.utcnow().isoformat() returns
activate_update_one(r, utcnow) ==
    /\ BagIn(r, call)
    /\ LET id == r.device
           matched == id \in DOMAIN devices_collection
           new == activate_set(devices_collection[id], r.uid, r.ip, utcnow)
           modified_count == IF matched /\ new # devices_collection[id]
                             THEN 1 ELSE 0
       IN /\ devices_collection' =
                 IF matched THEN [devices_collection EXCEPT ![id] = new]
                 ELSE devices_collection
          /\ IF modified_count = 0
             THEN /\ last' = Respond("activate", r.token, r.after_ok,
                                     HTTPException(500))
                  /\ UNCHANGED act_ok
             ELSE /\ last' = Respond("activate", r.token, r.after_ok,
                                     [code |-> 200, status |-> "active",
                                      activated |-> FALSE])
                  /\ act_ok' = act_ok \cup {r.token}
    /\ call' = call (-) SetToBag({r})
    /\ UNCHANGED <<oid_counter, uuid_counter, issued, act_issued, seen_active>>
    /\ UNCHANGED <<ws_vars, sig_vars, qr>>

\* GET /api/camera/check-status/{device_token}:
\* device = await find_one({"device_token": device_token}) and the response
check_device_status(device_token) ==
    /\ LET found == {id \in DOMAIN devices_collection :
                          check_status_filter(devices_collection[id], device_token)}
           after_ok == device_token \in act_ok
       IN IF found = {}
          THEN /\ last' = Respond("check_status", device_token, after_ok,
                                  HTTPException(404))
               /\ UNCHANGED seen_active
          ELSE \E id \in found :
                  LET response == check_status_response(devices_collection[id]) IN
                  /\ last' = Respond("check_status", device_token, after_ok,
                                     response)
                  /\ seen_active' = IF response.activated
                                    THEN seen_active \cup {device_token}
                                    ELSE seen_active
    /\ UNCHANGED <<devices_collection, oid_counter, uuid_counter, call,
                   issued, act_issued, act_ok>>
    /\ UNCHANGED <<ws_vars, sig_vars, qr>>

\* DELETE /api/camera/devices/{device_id}: 401 without a valid JWT, 400 when
\* ObjectId(device_id) raises, else
\* result = await delete_one({"_id": ObjectId(device_id), "owner_id": user_id}),
\* 404 when deleted_count is 0
delete_device(authorization, device_id) ==
    LET user_data == get_current_user(authorization)
        deleted_count ==
            IF /\ authorization # NULL
               /\ device_id \in DOMAIN devices_collection
               /\ devices_collection[device_id].owner_id = user_data.user_id
            THEN 1 ELSE 0
        response ==
            IF authorization = NULL THEN user_data
            ELSE IF device_id = BAD_ID THEN HTTPException(400)
            ELSE IF deleted_count = 0 THEN HTTPException(404)
            ELSE [code |-> 200, status |-> NULL, activated |-> FALSE]
    IN /\ last' = Respond("delete", NULL, FALSE, response)
       /\ devices_collection' =
              IF deleted_count = 1
              THEN [x \in DOMAIN devices_collection \ {device_id} |->
                       devices_collection[x]]
              ELSE devices_collection
       /\ UNCHANGED <<oid_counter, uuid_counter, call, hist>>
       /\ UNCHANGED <<ws_vars, sig_vars, qr>>

\* ------------------------------------------------------- main.py, REST
\* str(uuid.uuid4())[:8]: the first eight characters of the token
setup_token_of(device_token) == "8:" \o device_token

\* device_doc of add_device
add_device_doc(uid, owner_id, setup_token) ==
    [uid |-> uid, model |-> "Unknown", owner_id |-> owner_id,
     wifi_ssid |-> NULL, setup_token |-> setup_token, status |-> "created"]

\* POST /api/devices: owner_id is the request's, or the user_id of the JWT
\* given as token when it decodes;
\* await db.devices_collection.insert_one(device_doc)
add_device(uid, owner_id, token) ==
    LET owner == IF token # NULL THEN token ELSE owner_id
        id == ObjectId(oid_counter + 1)
    IN /\ devices_collection' =
              [x \in DOMAIN devices_collection \cup {id} |->
                  IF x = id THEN add_device_doc(uid, owner, setup_token_of(uuid4))
                  ELSE devices_collection[x]]
       /\ uuid_counter' = uuid_counter + 1
       /\ oid_counter' = oid_counter + 1
       /\ last' = Respond("add_device", NULL, FALSE,
                          [code |-> 200, status |-> NULL, activated |-> FALSE])
       /\ UNCHANGED <<call, hist>>
       /\ UNCHANGED <<ws_vars, sig_vars, qr>>

\* ------------------------------------------------------- signaling.py
\* the result of a call that may raise: the exception, or the value
Raise(exc) == [exc |-> exc, value |-> <<>>]
Return(value) == [exc |-> NULL, value |-> value]

\* dict.pop that removes nothing
pop_nothing(d, key, given_default) == Return(d)

\* dict.pop(key), whatever default is given
pop_without_default(d, key, given_default) ==
    IF key \in DOMAIN d
    THEN Return([k \in DOMAIN d \ {key} |-> d[k]])
    ELSE Raise("KeyError")

\* dict.pop(key, None) when a default is given, dict.pop(key) otherwise: the
\* dictionary without the key, or KeyError
pop(d, key, given_default) ==
    IF key \in DOMAIN d \/ given_default
    THEN Return([k \in DOMAIN d \ {key} |-> d[k]])
    ELSE Raise("KeyError")

\* devices.setdefault(uid, ws)
register_device_setdefault(uid, conn) ==
    [k \in DOMAIN devices \cup {uid} |-> IF k \in DOMAIN devices THEN devices[k] ELSE conn]

\* devices[uid] = ws
register_device(uid, conn) ==
    [k \in DOMAIN devices \cup {uid} |-> IF k = uid THEN conn ELSE devices[k]]

\* devices.pop(uid, None)
unregister_device(uid) == pop(devices, uid, TRUE)

\* users.setdefault(user_id, ws)
register_user_setdefault(user_id, conn) ==
    [k \in DOMAIN users \cup {user_id} |-> IF k \in DOMAIN users THEN users[k] ELSE conn]

\* users[user_id] = ws
register_user(user_id, conn) ==
    [k \in DOMAIN users \cup {user_id} |-> IF k = user_id THEN conn ELSE users[k]]

\* users.pop(user_id, None)
unregister_user(user_id) == pop(users, user_id, TRUE)

\* ------------------------------------------------------- main.py, /ws
\* the texts a client sends as its first message
REG_DEVICE == "{\"type\": \"register\", \"role\": \"device\", \"uid\": \"cam1\"}"
REG_USER == "{\"type\": \"register\", \"role\": \"user\", \"user_id\": \"u1\"}"
NO_ROLE == "{\"type\": \"register\"}"
REG_DEVICE_NO_UID == "{\"type\": \"register\", \"role\": \"device\"}"
REG_USER_NO_ID == "{\"type\": \"register\", \"role\": \"user\"}"
NOT_JSON == "register cam1"
InitTexts ==
    {REG_DEVICE, REG_USER, NO_ROLE, NOT_JSON, REG_DEVICE_NO_UID, REG_USER_NO_ID}

\* the message dictionaries forwarded, and their JSON texts
M_OFFER == [type |-> "offer", target_uid |-> "cam1", sdp |-> "v=0"]
M_ANSWER == [type |-> "answer", to |-> "user", user_id |-> "u1", sdp |-> "v=1"]
Messages == {M_OFFER, M_ANSWER}
OFFER_TEXT == "{\"type\": \"offer\", \"target_uid\": \"cam1\", \"sdp\": \"v=0\"}"
ANSWER_TEXT == "{\"type\": \"answer\", \"to\": \"user\", \"user_id\": \"u1\", \"sdp\": \"v=1\"}"

\* str(message) in place of json.dumps(message): Python's repr of the dictionary
json_dumps_repr(obj) ==
    CASE obj = M_OFFER -> "{'type': 'offer', 'target_uid': 'cam1', 'sdp': 'v=0'}"
      [] obj = M_ANSWER -> "{'type': 'answer', 'to': 'user', 'user_id': 'u1', 'sdp': 'v=1'}"
      [] OTHER -> "None"

\* json.dumps of the standard library (signaling.py imports json)
json_dumps(obj) ==
    CASE obj = M_OFFER -> OFFER_TEXT
      [] obj = M_ANSWER -> ANSWER_TEXT
      [] OTHER -> "null"

\* json.loads of the standard library
json_loads(text) ==
    CASE text = OFFER_TEXT -> Return(M_OFFER)
      [] text = ANSWER_TEXT -> Return(M_ANSWER)
      [] text = REG_DEVICE ->
            Return([type |-> "register", role |-> "device", uid |-> "cam1"])
      [] text = REG_USER ->
            Return([type |-> "register", role |-> "user", user_id |-> "u1"])
      [] text = NO_ROLE -> Return([type |-> "register"])
      [] text = REG_DEVICE_NO_UID -> Return([type |-> "register", role |-> "device"])
      [] text = REG_USER_NO_ID -> Return([type |-> "register", role |-> "user"])
      [] OTHER -> Raise("JSONDecodeError")

\* the names main.py binds at module level (its imports, app and its
\* handlers); json is not among them
MainGlobals ==
    {"FastAPI", "WebSocket", "WebSocketDisconnect", "Depends", "HTTPException",
     "CORSMiddleware", "db", "auth", "signaling", "models", "DeviceCreate",
     "UserCreate", "generate_password_hash", "check_password_hash", "uuid",
     "jwt", "app", "register", "login", "add_device", "get_device",
     "websocket_endpoint"}

\* json.loads(...) evaluated in a main.py that imports json
main_json_loads_imported(text) == json_loads(text)

\* json.loads(...) evaluated in main.py: the name json is looked up first
main_json_loads(text) ==
    IF "json" \in MainGlobals THEN json_loads(text) ELSE Raise("NameError")

\* a connection nobody opened yet; role, uid and user_id are the locals of
\* websocket_endpoint, reply the text the server sent, outcome the way the
\* coroutine ended
NewSocket == [state |-> "new", init_msg |-> NULL, role |-> UNBOUND,
              uid |-> UNBOUND, user_id |-> UNBOUND, reply |-> NULL,
              outcome |-> NULL]

\* a client connects: await ws.accept()
websocket_accept(conn) ==
    /\ ws[conn].state = "new"
    /\ ws' = [ws EXCEPT ![conn].state = "accepted"]
    /\ UNCHANGED <<devices, users, prov_vars, sig_vars>>

\* a handler that keeps the text and goes on waiting
websocket_receive_init_ignoring(conn, text) ==
    /\ ws[conn].state = "accepted"
    /\ ws[conn].init_msg = NULL
    /\ ws' = [ws EXCEPT ![conn].init_msg = text]
    /\ UNCHANGED <<devices, users, prov_vars, sig_vars>>

\* init_msg = await ws.receive_text() returns text; msg = json.loads(init_msg)
\* and the registration under msg's role.  An exception other than
\* WebSocketDisconnect is printed and the connection closed; a role that is
\* neither device nor user ends the coroutine
websocket_receive_init(conn, text) ==
    /\ ws[conn].state = "accepted"
    /\ LET loaded == main_json_loads(text)
           msg == loaded.value
           role == get(msg, "role")
       IN IF loaded.exc # NULL
          THEN /\ ws' = [ws EXCEPT ![conn].state = "closed",
                                   ![conn].init_msg = text,
                                   ![conn].outcome = "error"]
               /\ UNCHANGED <<devices, users>>
          ELSE IF role = "device"
          THEN /\ devices' = register_device(get(msg, "uid"), conn)
               /\ ws' = [ws EXCEPT ![conn].state = "device_loop",
                                   ![conn].init_msg = text,
                                   ![conn].role = role,
                                   ![conn].uid = get(msg, "uid"),
                                   ![conn].reply = "registered"]
               /\ UNCHANGED users
          ELSE IF role = "user"
          THEN /\ users' = register_user(get(msg, "user_id"), conn)
               /\ ws' = [ws EXCEPT ![conn].state = "user_loop",
                                   ![conn].init_msg = text,
                                   ![conn].role = role,
                                   ![conn].user_id = get(msg, "user_id"),
                                   ![conn].reply = "registered"]
               /\ UNCHANGED devices
          ELSE /\ ws' = [ws EXCEPT ![conn].state = "closed",
                                   ![conn].init_msg = text,
                                   ![conn].role = role,
                                   ![conn].outcome = "returned"]
               /\ UNCHANGED <<devices, users>>
    /\ UNCHANGED <<prov_vars, sig_vars>>

\* if role == "device": reading role before msg.get("role") bound it raises
cleanup_reads_role(role) ==
    IF role = UNBOUND THEN Raise("UnboundLocalError") ELSE Return(role)

\* a cleanup with no try around it: what it raises leaves the handler
cleanup_except_nothing(exc) == exc

\* try: ... except Exception: pass around the cleanup: what leaves the handler
cleanup_except(exc) == NULL

\* the client goes away: await ws.receive_text() raises WebSocketDisconnect
\* and the handler unregisters by role; with role still unbound the
\* comparison raises (UnboundLocalError), which the inner try swallows
websocket_disconnect(conn) ==
    /\ ws[conn].state \in {"accepted", "device_loop", "user_loop"}
    /\ devices' = IF ws[conn].role = "device"
                  THEN unregister_device(ws[conn].uid).value ELSE devices
    /\ users' = IF ws[conn].role = "user"
                THEN unregister_user(ws[conn].user_id).value ELSE users
    /\ ws' = [ws EXCEPT ![conn].state = "closed",
                        ![conn].outcome =
                            IF cleanup_except(cleanup_reads_role(ws[conn].role).exc) = NULL
                            THEN "disconnect" ELSE "raised"]
    /\ UNCHANGED <<prov_vars, sig_vars>>

\* ------------------------------------------- signaling.py, its callers
\* the functions of signaling.py applied one call at a time, as any
\* coroutine of the process may apply them, to the WebSocket objects it holds

\* the call the step just taken made: the function, its key, the channel it
\* selected (0: none), the channel the key had before (0: none), the text
\* the channel's transport took, and what the call raised
Called(op, key, target, was, text, exc) ==
    [op |-> op, key |-> key, target |-> target, was |-> was, text |-> text,
     exc |-> exc]

NoCall == Called("none", NULL, 0, 0, NULL, NULL)

\* d.get(key), with 0 standing for None
lookup(d, key) == IF key \in DOMAIN d THEN d[key] ELSE 0

\* await signaling.register_device(uid, ws)
signaling_register_device(uid, ch) ==
    /\ devices' = register_device(uid, ch)
    /\ sig' = Called("register_device", uid, ch, lookup(devices, uid), NULL, NULL)
    /\ UNCHANGED <<users, ws, peer, sending, dropped, prov_vars>>

\* await signaling.register_user(user_id, ws)
signaling_register_user(user_id, ch) ==
    /\ users' = register_user(user_id, ch)
    /\ sig' = Called("register_user", user_id, ch, lookup(users, user_id), NULL, NULL)
    /\ UNCHANGED <<devices, ws, peer, sending, dropped, prov_vars>>

\* await signaling.unregister_device(uid)
signaling_unregister_device(uid) ==
    /\ LET popped == unregister_device(uid) IN
         /\ devices' = IF popped.exc = NULL THEN popped.value ELSE devices
         /\ sig' = Called("unregister_device", uid, 0, lookup(devices, uid), NULL,
                          popped.exc)
    /\ UNCHANGED <<users, ws, peer, sending, dropped, prov_vars>>

\* await signaling.unregister_user(user_id)
signaling_unregister_user(user_id) ==
    /\ LET popped == unregister_user(user_id) IN
         /\ users' = IF popped.exc = NULL THEN popped.value ELSE users
         /\ sig' = Called("unregister_user", user_id, 0, lookup(users, user_id), NULL,
                          popped.exc)
    /\ UNCHANGED <<devices, ws, peer, sending, dropped, prov_vars>>

\* a forward suspended in await ws.send_text(json.dumps(message)): the
\* channel the lookup selected, the argument message and the text to send
Send(ch, message) ==
    [ch |-> ch, message |-> message, text |-> json_dumps(message)]

\* a forward that indexes the dictionary, d[key], in place of d.get(key)
forward_indexing(op, d, key, message) ==
    /\ IF key \in DOMAIN d
       THEN /\ BagCardinality(sending) < MaxSending
            /\ sending' = sending (+) SetToBag({Send(d[key], message)})
            /\ sig' = Called(op, key, d[key], d[key], NULL, NULL)
            /\ UNCHANGED dropped
       ELSE /\ sig' = Called(op, key, 0, 0, NULL, "KeyError")
            /\ dropped' = dropped \cup {key}
            /\ UNCHANGED sending
    /\ UNCHANGED <<devices, users, ws, peer, prov_vars>>

\* forward_to_device and forward_to_user up to their await: ws = d.get(key);
\* if ws (a WebSocket object is never falsy): await ws.send_text(...);
\* without a channel the call returns at once
forward(op, d, key, message) ==
    /\ IF key \in DOMAIN d
       THEN /\ BagCardinality(sending) < MaxSending
            /\ sending' = sending (+) SetToBag({Send(d[key], message)})
            /\ sig' = Called(op, key, d[key], d[key], NULL, NULL)
            /\ UNCHANGED dropped
       ELSE /\ sig' = Called(op, key, 0, 0, NULL, NULL)
            /\ dropped' = dropped \cup {key}
            /\ UNCHANGED sending
    /\ UNCHANGED <<devices, users, ws, peer, prov_vars>>

\* await signaling.forward_to_device(uid, message)
signaling_forward_to_device(uid, message) ==
    forward("forward_to_device", devices, uid, message)

\* await signaling.forward_to_user(user_id, message)
signaling_forward_to_user(user_id, message) ==
    forward("forward_to_user", users, user_id, message)

\* ws.send_text returns to the forward that awaits it: the transport took
\* the text, which it does while the client end reads
send_text_returns(s) ==
    /\ BagIn(s, sending)
    /\ peer[s.ch] = "reading"
    /\ sending' = sending (-) SetToBag({s})
    /\ sig' = Called("send_text", NULL, s.ch, s.ch, s.text, NULL)
    /\ UNCHANGED <<devices, users, ws, peer, dropped, prov_vars>>

\* what ws.send_text raises on a connection that is gone: RuntimeError once
\* a close message was sent, WebSocketDisconnect when the client went away
SendErrors == {"RuntimeError", "WebSocketDisconnect"}

\* ws.send_text raises in the forward that awaits it: the connection is
\* gone; forward_to_device and forward_to_user catch nothing, so the
\* exception leaves the forward and reaches its caller
send_text_raises(s, exc) ==
    /\ BagIn(s, sending)
    /\ peer[s.ch] = "gone"
    /\ sending' = sending (-) SetToBag({s})
    /\ sig' = Called("send_text_raised", NULL, s.ch, s.ch, NULL, exc)
    /\ UNCHANGED <<devices, users, ws, peer, dropped, prov_vars>>

\* the connection of a channel goes away; signaling.py is not told, and an
\* entry that names the channel stays
peer_closes(ch) ==
    /\ peer[ch] # "gone"
    /\ peer' = [peer EXCEPT ![ch] = "gone"]
    /\ sig' = NoCall
    /\ UNCHANGED <<devices, users, ws, sending, dropped, prov_vars>>

\* the client end of a channel stops reading: the transport's buffers fill
\* and ws.send_text on it no longer returns
peer_stalls(ch) ==
    /\ peer[ch] = "reading"
    /\ peer' = [peer EXCEPT ![ch] = "stalled"]
    /\ sig' = NoCall
    /\ UNCHANGED <<devices, users, ws, sending, dropped, prov_vars>>

\* the client end reads again
peer_reads(ch) ==
    /\ peer[ch] = "stalled"
    /\ peer' = [peer EXCEPT ![ch] = "reading"]
    /\ sig' = NoCall
    /\ UNCHANGED <<devices, users, ws, sending, dropped, prov_vars>>

\* ---------------------------------------------------------------- Spec
\* the state after the modules are imported: an empty collection, empty
\* connection maps, no connection yet
Init ==
    /\ devices = [k \in {} |-> 0]
    /\ users = [k \in {} |-> 0]
    /\ ws = [conn \in Conns |-> NewSocket]
    /\ peer = [ch \in Channels |-> "reading"]
    /\ sending = EmptyBag
    /\ sig = NoCall
    /\ dropped = {}
    /\ qr = NoQr
    /\ devices_collection = [id \in {} |-> NULL]
    /\ oid_counter = 0
    /\ uuid_counter = 0
    /\ call = EmptyBag
    /\ last = NoResponse
    /\ issued = <<>>
    /\ act_issued = {}
    /\ act_ok = {}
    /\ seen_active = {}

Next ==
    \/ initiate_unauthorized
    \/ \E u \in Owners, p \in Passwords, now \in OnboardTimes :
          uuid_counter < MaxRecords /\ initiate_device_onboarding(u, p, now)
    \/ \E t \in KnownTokens, u \in Uids, ip \in Ips : activate_device(t, u, ip)
    \/ \E r \in BagToSet(call), now \in Times : activate_update_one(r, now)
    \/ \E t \in KnownTokens : check_device_status(t)
    \/ \E a \in Users \cup {NULL}, d \in KnownIds : delete_device(a, d)

Spec == Init /\ [][Next]_vars

\* onboarding, polling and deletion only: more records, no activation
NextOnboard ==
    \/ initiate_unauthorized
    \/ \E u \in Owners, p \in Passwords, now \in OnboardTimes :
          uuid_counter < MaxOnboard /\ initiate_device_onboarding(u, p, now)
    \/ \E t \in KnownTokens : check_device_status(t)
    \/ \E a \in Users \cup {NULL}, d \in KnownIds : delete_device(a, d)

SpecOnboard == Init /\ [][NextOnboard]_vars

\* onboarding and activation only: two records
NextActivate ==
    \/ \E u \in Owners, now \in OnboardTimes :
          uuid_counter < MaxPair /\ initiate_device_onboarding(u, "pw", now)
    \/ \E t \in KnownTokens, u \in Uids, ip \in Ips : activate_device(t, u, ip)
    \/ \E r \in BagToSet(call), now \in Times : activate_update_one(r, now)

SpecActivate == Init /\ [][NextActivate]_vars

\* the endpoints that insert into and delete from the device collection
NextDevices ==
    \/ \E u \in Owners, now \in OnboardTimes :
          oid_counter < MaxOnboard /\ initiate_device_onboarding(u, "pw", now)
    \/ \E uid \in Uids, owner_id \in Owners \cup {NULL}, token \in Owners \cup {NULL} :
          oid_counter < MaxOnboard /\ add_device(uid, owner_id, token)
    \/ \E a \in Users \cup {NULL}, d \in KnownIds : delete_device(a, d)

SpecDevices == Init /\ [][NextDevices]_vars

\* the signaling endpoint alone
NextWs ==
    \/ \E conn \in Conns : websocket_accept(conn)
    \/ \E conn \in Conns, text \in InitTexts : websocket_receive_init(conn, text)
    \/ \E conn \in Conns : websocket_disconnect(conn)

SpecWs == Init /\ [][NextWs]_vars

\* the connection maps and the forwards of signaling.py alone
NextSignaling ==
    \/ \E uid \in DeviceKeys, ch \in Channels : signaling_register_device(uid, ch)
    \/ \E user_id \in UserKeys, ch \in Channels : signaling_register_user(user_id, ch)
    \/ \E uid \in DeviceKeys : signaling_unregister_device(uid)
    \/ \E user_id \in UserKeys : signaling_unregister_user(user_id)
    \/ \E uid \in DeviceKeys, message \in Messages :
          signaling_forward_to_device(uid, message)
    \/ \E user_id \in UserKeys, message \in Messages :
          signaling_forward_to_user(user_id, message)
    \/ \E s \in BagToSet(sending) : send_text_returns(s)
    \/ \E s \in BagToSet(sending), exc \in SendErrors : send_text_raises(s, exc)
    \/ \E ch \in Channels : peer_closes(ch)
    \/ \E ch \in Channels : peer_stalls(ch)
    \/ \E ch \in Channels : peer_reads(ch)

SpecSignaling == Init /\ [][NextSignaling]_vars

\* the QR payload codec of qr_utils.py alone
NextCodec ==
    \/ \E fields \in QrFields, compact \in BOOLEAN : qr_generate(fields, compact)
    \/ \E qr_data \in ScannedPayloads : qr_scan(qr_data)
    \/ qr_decode

SpecCodec == Init /\ [][NextCodec]_vars


\* ---------------------------------------------------------------- claims
\* no connection ever registers: every first message ends at the NameError
\* of main_json_loads, so both connection maps stay empty
NoConnectionRegisters ==
    /\ DOMAIN devices = {} /\ DOMAIN users = {}
    /\ \A conn \in Conns :
          /\ ws[conn].state \in {"new", "accepted", "closed"}
          /\ ws[conn].role = UNBOUND
          /\ ws[conn].outcome \in {NULL, "error", "disconnect"}

\* a document carries device_token
Present(device_token) ==
    \E id \in DOMAIN devices_collection :
        devices_collection[id].device_token = device_token

\* C1: of the activate calls racing for one pending token exactly one
\* succeeds and the others get 404: no token gets a second successful activate
C1_OneActivateSucceeds ==
    [][~(/\ last'.op = "activate"
         /\ last'.code = 200
         /\ last'.token \in act_ok)]_vars

\* C2: device_uid is written at most once: once a document's device_uid is
\* not null, no step changes it
C2_DeviceUidWrittenOnce ==
    [][\A id \in DOMAIN devices_collection \cap DOMAIN devices_collection' :
          devices_collection[id].device_uid # NULL
          => devices_collection'[id].device_uid = devices_collection[id].device_uid]_vars

\* C3: status only moves from pending to active: no step takes a document
\* from active to another status, and once check_status returned active for
\* a token no check_status returns pending for it
C3_StatusOnlyPendingToActive ==
    [][/\ \A id \in DOMAIN devices_collection \cap DOMAIN devices_collection' :
             devices_collection'[id].status
                 \in {devices_collection[id].status, "active"}
       /\ (last'.op = "check_status" /\ last'.token \in seen_active)
             => last'.status # "pending"]_vars

\* C3 witness: check_status answers active for a token it answered active for
\* before, after an activate succeeded
C3_Witness ==
    /\ last.op = "check_status" /\ last.status = "active"
    /\ last.after_ok /\ last.token \in seen_active

\* C4 as stated: after a successful activate of a token every later
\* check_status of it returns active and activated, and every later activate
\* of it returns 404
C4_AfterActivate ==
    /\ (last.op = "check_status" /\ last.after_ok)
          => (last.code = 200 /\ last.status = "active" /\ last.activated)
    /\ (last.op = "activate" /\ last.after_ok) => last.code = 404

\* C4 amended: after a successful activate of a token every later
\* check_status of it returns active and activated while the document exists
\* and 404 once it was deleted, and every later activate of it returns 404
C4_AfterActivateUnlessDeleted ==
    /\ (last.op = "check_status" /\ last.after_ok)
          => IF Present(last.token)
             THEN last.code = 200 /\ last.status = "active" /\ last.activated
             ELSE last.code = 404
    /\ (last.op = "activate" /\ last.after_ok) => last.code = 404

\* C4 witness: an activate that arrives after another one of the same token
\* succeeded has been answered
C4_Witness ==
    last.op = "activate" /\ last.after_ok /\ last.code = 404

\* C5: an activate call that does not succeed returns 404 and nothing else
C5_ActivateFailsOnlyNotFound ==
    last.op = "activate" => last.code \in {200, 404}

\* C6: an initiate, activate or check_status that ends in failure leaves the
\* device collection as it was
C6_FailureChangesNothing ==
    [][(last'.op \in {"initiate", "activate", "check_status"} /\ last'.code # 200)
          => devices_collection' = devices_collection]_vars

\* C7: no two documents carry the same device_token, the tokens successful
\* initiates returned are pairwise distinct (deleted documents included), and
\* the token an initiate returns is the one of a stored document
C7_TokensDistinct ==
    /\ \A i, j \in DOMAIN devices_collection :
          i # j => devices_collection[i].device_token
                      # devices_collection[j].device_token
    /\ \A m, n \in DOMAIN issued : m # n => issued[m] # issued[n]
    /\ (last.op = "initiate" /\ last.code = 200) => Present(last.token)

\* C7 witness: three tokens were returned and the document of one of them
\* was deleted before the last one was drawn
C7_Witness ==
    /\ Len(issued) = 3
    /\ Cardinality(DOMAIN devices_collection) = 2
    /\ last.op = "initiate" /\ last.code = 200

\* C8 as stated: check_status of a token a successful initiate returned,
\* before any activate of the token, returns pending and not activated
C8_PendingBeforeActivate ==
    (/\ last.op = "check_status"
     /\ last.token \in Range(issued)
     /\ last.token \notin act_issued)
       => (last.code = 200 /\ last.status = "pending" /\ ~last.activated)

\* C8 amended: ... returns pending and not activated while the document
\* exists, and 404 once it was deleted
C8_PendingBeforeActivateUnlessDeleted ==
    (/\ last.op = "check_status"
     /\ last.token \in Range(issued)
     /\ last.token \notin act_issued)
       => IF Present(last.token)
          THEN last.code = 200 /\ last.status = "pending" /\ ~last.activated
          ELSE last.code = 404

\* C8 witness: such a check_status has returned pending
C8_Witness ==
    /\ last.op = "check_status" /\ last.status = "pending"
    /\ last.token \in Range(issued) /\ last.token \notin act_issued

\* C9: check_status changes no document, and it returns 404 exactly when no
\* document, pending or active, carries the token
C9_CheckStatusReadOnly ==
    [][last'.op = "check_status"
          => /\ devices_collection' = devices_collection
             /\ last'.code \in {200, 404}
             /\ last'.code = 404 <=> ~Present(last'.token)]_vars

\* C9 witness: check_status has found the active document of a token
C9_Witness ==
    /\ last.op = "check_status" /\ last.code = 200 /\ last.status = "active"
    /\ Present(last.token)

\* a step in which forward_to_device or forward_to_user ran to its lookup
Forwarded(op, d) ==
    sig'.op = op =>
       IF sig'.key \in DOMAIN d
       THEN /\ sig'.target = d[sig'.key]
            /\ \E m \in Messages :
                  sending' = sending (+) SetToBag({Send(d[sig'.key], m)})
       ELSE /\ sig'.target = 0
            /\ sig'.exc = NULL
            /\ sending' = sending

\* a step in which a suspended forward handed its text to its channel
Handed ==
    sig'.op = "send_text" =>
       \E s \in BagToSet(sending) :
          /\ sending' = sending (-) SetToBag({s})
          /\ sig'.target = s.ch
          /\ sig'.text = s.text

\* C12: a forward for a registered key hands the message to the channel
\* the key is registered to and to no other; register makes the key's
\* channel the one given, unregister leaves the key without one, and a
\* forward for a key without a channel delivers nothing and raises nothing
C12_ForwardReachesRegistered ==
    [][/\ Forwarded("forward_to_device", devices)
       /\ Forwarded("forward_to_user", users)
       /\ Handed
       /\ sig'.op = "register_device" => lookup(devices', sig'.key) = sig'.target
       /\ sig'.op = "register_user" => lookup(users', sig'.key) = sig'.target
       /\ sig'.op = "unregister_device" => sig'.key \notin DOMAIN devices'
       /\ sig'.op = "unregister_user" => sig'.key \notin DOMAIN users']_vars

\* C12 witness: the transport of the channel cam1 is registered to took the
\* text of a message forwarded to cam1
C12_Witness ==
    /\ sig.op = "send_text" /\ sig.text = OFFER_TEXT
    /\ lookup(devices, "cam1") = sig.target

\* C13: a key has at most one channel: a register over an existing entry
\* replaces it and touches no other entry, and a forward selects the channel
\* registered last, never the one it replaced
C13_OneChannelPerKey ==
    [][/\ sig'.op = "register_user"
          => /\ users' = [k \in DOMAIN users \cup {sig'.key} |->
                            IF k = sig'.key THEN sig'.target ELSE users[k]]
             /\ devices' = devices
       /\ sig'.op = "register_device"
          => /\ devices' = [k \in DOMAIN devices \cup {sig'.key} |->
                              IF k = sig'.key THEN sig'.target ELSE devices[k]]
             /\ users' = users
       /\ (sig'.op = "forward_to_user" /\ sig'.target # 0)
          => sig'.target = users[sig'.key]
       /\ (sig'.op = "forward_to_device" /\ sig'.target # 0)
          => sig'.target = devices[sig'.key]]_vars

\* C13 witness: a user key that had a channel was registered to another one
C13_Witness ==
    /\ sig.op = "register_user"
    /\ sig.was # 0 /\ sig.was # sig.target
    /\ users[sig.key] = sig.target

\* C14: a forward that finds no channel for its key delivers nothing, raises
\* nothing, changes neither connection map and leaves nothing waiting; a
\* later register hands nothing to the channel it registers
C14_UnregisteredTargetDropped ==
    [][/\ (sig'.op \in {"forward_to_device", "forward_to_user"} /\ sig'.target = 0)
          => /\ sig'.exc = NULL
             /\ sig'.text = NULL
             /\ sending' = sending
             /\ devices' = devices /\ users' = users
       /\ sig'.op \in {"register_device", "register_user"}
          => /\ sending' = sending
             /\ sig'.text = NULL]_vars

\* C14 witness: a channel was registered under a user key for which a
\* forward had found no channel before
C14_Witness ==
    /\ sig.op = "register_user" /\ sig.was = 0
    /\ sig.key \in dropped

\* C15: the first envelope of a connection with role device and uid cam1
\* (role user and user_id u1) registers the connection under that key,
\* is answered with registered, and leaves the connection registered
C15_FirstEnvelopeRegisters ==
    [][\A conn \in Conns :
          /\ (ws[conn].state = "accepted" /\ ws'[conn].init_msg = REG_DEVICE)
                => /\ lookup(devices', "cam1") = conn
                   /\ ws'[conn].reply = "registered"
                   /\ ws'[conn].state = "device_loop"
          /\ (ws[conn].state = "accepted" /\ ws'[conn].init_msg = REG_USER)
                => /\ lookup(users', "u1") = conn
                   /\ ws'[conn].reply = "registered"
                   /\ ws'[conn].state = "user_loop"]_vars

\* C16: a first envelope without a role of device or user installs no entry
\* in either connection map, leaves the connection without a role, and ends
\* with the connection closed
C16_RolelessEnvelopeCloses ==
    [][\A conn \in Conns :
          (ws[conn].state = "accepted" /\ ws'[conn].init_msg = NO_ROLE)
             => /\ devices' = devices /\ users' = users
                /\ ws'[conn].role \notin {"device", "user"}
                /\ ws'[conn].state = "closed"]_vars

\* C16 witness: a connection whose first envelope had no role is closed
C16_Witness ==
    \E conn \in Conns :
       /\ ws[conn].init_msg = NO_ROLE /\ ws[conn].state = "closed"
       /\ DOMAIN devices = {} /\ DOMAIN users = {}

\* C17: a forward suspended on its destination can always complete by
\* itself, whatever the destination does
C17_ForwardNeverBlocked ==
    \A s \in BagToSet(sending) : ENABLED send_text_returns(s)

C19_UnregisterAbsentNoOp ==
    [][/\ (sig'.op \in {"unregister_device", "unregister_user"} /\ sig'.was = 0)
          => /\ sig'.exc = NULL
             /\ devices' = devices /\ users' = users
       /\ \A uid \in DeviceKeys :
             /\ unregister_device(uid).exc = NULL
             /\ pop(unregister_device(uid).value, uid, TRUE) = unregister_device(uid)
       /\ \A user_id \in UserKeys :
             /\ unregister_user(user_id).exc = NULL
             /\ pop(unregister_user(user_id).value, user_id, TRUE)
                   = unregister_user(user_id)]_vars

\* C19 witness: unregister_device ran for a key that had no entry
C19_Witness ==
    /\ sig.op = "unregister_device" /\ sig.was = 0 /\ sig.exc = NULL
    /\ DOMAIN devices = {}

\* C20: decoding the descriptive encoding of onboarding field values returns
\* those field values, each under its own name
C20_DescriptiveRoundTrip ==
    (qr.stage = "decoded" /\ ~qr.compact)
       => /\ DOMAIN qr.fields \subseteq DOMAIN qr.decoded
          /\ \A f \in DOMAIN qr.fields : qr.decoded[f] = qr.fields[f]

\* C20 witness: a descriptive payload whose wifi_ssid is the text "s" was
\* decoded
C20_Witness ==
    /\ qr.stage = "decoded" /\ ~qr.compact
    /\ qr.fields.wifi_ssid = "s"

AliasOf ==
    [s |-> "wifi_ssid", p |-> "wifi_password", t |-> "device_token",
     u |-> "server_url", m |-> "camera_model", i |-> "user_id", v |-> "version"]

\* C26: a payload is decoded as compact exactly when it has the key "s"
\* (any other payload is returned as it is), and of a compact payload the
\* aliases that are missing are absent from the decoded dictionary
C26_MissingAliasAbsent ==
    qr.stage = "decoded"
       => IF "s" \in DOMAIN qr.qr_data
          THEN \A a \in DOMAIN AliasOf :
                  a \notin DOMAIN qr.qr_data => AliasOf[a] \notin DOMAIN qr.decoded
          ELSE qr.decoded = qr.qr_data

\* C22: every document with status pending has device_uid and activated_at
\* null, every document with status active has a device_uid, and a document
\* that initiate inserts has status pending and device_uid null
C22_StatusMatchesUid ==
    [][/\ \A id \in DOMAIN devices_collection' :
             LET doc == devices_collection'[id] IN
             /\ doc.status = "pending"
                   => doc.device_uid = NULL /\ doc.activated_at = NULL
             /\ doc.status = "active" => doc.device_uid # NULL
       /\ \A id \in DOMAIN devices_collection' \ DOMAIN devices_collection :
             /\ devices_collection'[id].status = "pending"
             /\ devices_collection'[id].device_uid = NULL]_vars

\* C22 witness: an activate succeeded and the document is active with the
\* device_uid of a camera
C22_Witness ==
    /\ last.op = "activate" /\ last.code = 200
    /\ \E id \in DOMAIN devices_collection :
          /\ devices_collection[id].status = "active"
          /\ devices_collection[id].device_uid \in Uids

\* C27: every document of the device collection has a status of pending,
\* active or offline
C27_StatusInSet ==
    \A id \in DOMAIN devices_collection :
       devices_collection[id].status \in {"pending", "active", "offline"}

\* C30: a successful activate changes device_uid, local_ip, status and
\* activated_at of the document with its token and nothing else: that
\* document's other fields and every other document stay as they were
C30_ActivateFrame ==
    [][(last'.op = "activate" /\ last'.code = 200)
          => /\ DOMAIN devices_collection' = DOMAIN devices_collection
             /\ \E id \in DOMAIN devices_collection :
                   /\ devices_collection[id].device_token = last'.token
                   /\ \A x \in DOMAIN devices_collection \ {id} :
                         devices_collection'[x] = devices_collection[x]
                   /\ \A f \in {"device_token", "owner_id", "device_name",
                                "camera_model", "wifi_ssid", "created_at"} :
                         devices_collection'[id][f] = devices_collection[id][f]]_vars

\* C30 witness: an activate succeeded while another document was pending
C30_Witness ==
    /\ last.op = "activate" /\ last.code = 200
    /\ \E id, other \in DOMAIN devices_collection :
          /\ id # other
          /\ devices_collection[id].device_token = last.token
          /\ devices_collection[id].status = "active"
          /\ devices_collection[other].status = "pending"

C24_SupersedeFrame ==
    [][/\ sig'.op \in {"register_device", "register_user"}
          => /\ sending' = sending /\ sig'.text = NULL /\ sig'.exc = NULL
             /\ peer' = peer /\ ws' = ws
       /\ sig'.op = "register_device"
          => /\ users' = users
             /\ DOMAIN devices' = DOMAIN devices \cup {sig'.key}
             /\ devices'[sig'.key] = sig'.target
             /\ \A k \in DOMAIN devices \ {sig'.key} : devices'[k] = devices[k]
       /\ sig'.op = "register_user"
          => /\ devices' = devices
             /\ DOMAIN users' = DOMAIN users \cup {sig'.key}
             /\ users'[sig'.key] = sig'.target
             /\ \A k \in DOMAIN users \ {sig'.key} : users'[k] = users[k]]_vars

\* C24 witness: a device key whose channel is open was registered to
\* another channel
C24_Witness ==
    /\ sig.op = "register_device"
    /\ sig.was # 0 /\ sig.was # sig.target
    /\ peer[sig.was] = "reading"
    /\ devices[sig.key] = sig.target

\* C29: a delivery that fails stays inside the forward: no call of
\* signaling.py ends with an exception for its caller
C29_DeliveryFailureContained ==
    sig.exc = NULL

\* C31: a connection that goes away before its first envelope leaves both
\* connection maps as they were, and its handler ends without an exception
C31_EarlyDisconnectFrame ==
    [][\A conn \in Conns :
          (/\ ws[conn].state = "accepted"
           /\ ws'[conn].state = "closed"
           /\ ws'[conn].init_msg = NULL)
             => /\ devices' = devices /\ users' = users
                /\ ws'[conn].outcome = "disconnect"]_vars

\* C31 witness: a connection went away before its first envelope
C31_Witness ==
    \E conn \in Conns :
       /\ ws[conn].state = "closed"
       /\ ws[conn].init_msg = NULL
       /\ ws[conn].role = UNBOUND
       /\ ws[conn].outcome = "disconnect"

====
